---- MODULE Spec2Model ----
(***************************************************************************)
(* Real-time stock data distribution: backend/websocket_server.py          *)
(* (StockWebSocketServer, run_server) and backend/websocket_manager.py     *)
(* (WebSocketManager).                                                     *)
(*                                                                         *)
(* Threads of the program:                                                 *)
(*   - the main thread, which calls the manager's start_server and         *)
(*     stop_server;                                                        *)
(*   - one server thread per server instance (run_server), whose asyncio   *)
(*     loop runs one handler coroutine per accepted connection;            *)
(*   - one update thread per server instance (start_update_thread), whose  *)
(*     own asyncio loop runs broadcast_updates.                            *)
(* The handlers of one instance interleave only at awaits; the update      *)
(* thread interleaves with them between any two accesses of the shared     *)
(* dictionaries self.clients and self.stock_data.  An action below is one  *)
(* maximal piece of code whose shared accesses commute with the other      *)
(* threads' steps.                                                         *)
(***************************************************************************)
EXTENDS Integers, Sequences, FiniteSets, TLC

----------------------------------------------------------------------------
(* Bounds of the model *)

\* server threads the manager may spawn (server instances 1..MaxStarts)
MaxStarts == 2
\* successful fetches (values of the clock datetime.now() stamps on snapshots)
MaxClock == 2
\* direct calls of the registry's methods
MaxOps == 3

Inst == 1..MaxStarts

\* websocket connection objects; each is accepted at most once
Conns == {"c1", "c2"}

----------------------------------------------------------------------------
(* Strings as sequences of character codes, so that str.upper() is computed *)

sym_aapl == <<97, 97, 112, 108>>
sym_AAPL == <<65, 65, 80, 76>>
sym_MSFT == <<77, 83, 70, 84>>

\* the symbol kept as spelled
Upper_as_spelled(s) == s

\* str.upper() on ASCII text
Upper(s) == [k \in DOMAIN s |-> IF s[k] \in 97..122 THEN s[k] - 32 ELSE s[k]]

\* JSON values of the "symbol" field: a string, null/missing, or a number
JStr(s) == [t |-> "str", v |-> s]
JNull == [t |-> "null", v |-> <<>>]
JNum == [t |-> "num", v |-> <<55>>]

\* a test for a symbol that is present, `if symbol is not None:`
Truthy_not_none(j) == j.t # "null"

\* Python truthiness of the value, as tested by `if symbol:`
Truthy(j) == (j.t = "str" /\ j.v # <<>>) \/ j.t = "num"

SymbolValues == {JStr(sym_aapl), JStr(sym_AAPL), JStr(sym_MSFT), JStr(<<>>), JNull, JNum}

\* inbound frames: text that is not JSON, JSON that is not an object, or an
\* object with an action and a symbol
Messages ==
    {[kind |-> "object", action |-> a, symbol |-> j] :
        a \in {"subscribe", "unsubscribe"}, j \in SymbolValues}
    \cup {[kind |-> "object", action |-> a, symbol |-> JNull] : a \in {"ping", "bogus"}}
    \cup {[kind |-> k, action |-> "", symbol |-> JNull] : k \in {"garbage", "array"}}

----------------------------------------------------------------------------
(* Upstream responses seen by fetch_stock_data *)

NoResults == [k \in {} |-> 0]
FullResults == [k \in {"p", "s", "t", "x", "c"} |->
                  CASE k = "p" -> 150 [] k = "s" -> 100 [] k = "t" -> 1
                    [] k = "x" -> 4 [] OTHER -> <<12>>]
PriceOnly == [k \in {"p"} |-> 151]

Responses ==
    {[kind |-> "raise", status |-> 0, results |-> NoResults],
     [kind |-> "http", status |-> 500, results |-> NoResults],
     [kind |-> "http", status |-> 200, results |-> NoResults],
     [kind |-> "http", status |-> 200, results |-> FullResults],
     [kind |-> "http", status |-> 200, results |-> PriceOnly]}

\* dict.get(key, default)
Get(d, k, default) == IF k \in DOMAIN d THEN d[k] ELSE default

None == [none |-> TRUE]

\* a fetch that does not look at the status of the response
fetch_stock_data_any_status(resp, clock) ==
    IF resp.kind = "raise" THEN None
    ELSE IF DOMAIN resp.results # {}
         THEN [price |-> Get(resp.results, "p", 0),
               size |-> Get(resp.results, "s", 0),
               timestamp |-> Get(resp.results, "t", 0),
               exchange |-> Get(resp.results, "x", 0),
               conditions |-> Get(resp.results, "c", <<>>),
               updated_at |-> clock]
         ELSE None

\* fetch_stock_data: the snapshot, or None
fetch_stock_data(resp, clock) ==
    IF resp.kind = "raise" THEN None
    ELSE IF resp.status = 200 /\ DOMAIN resp.results # {}
         THEN [price |-> Get(resp.results, "p", 0),
               size |-> Get(resp.results, "s", 0),
               timestamp |-> Get(resp.results, "t", 0),
               exchange |-> Get(resp.results, "x", 0),
               conditions |-> Get(resp.results, "c", <<>>),
               updated_at |-> clock]
         ELSE None

----------------------------------------------------------------------------
(* State *)

VARIABLES
    \* websocket_manager.py
    ENABLE_WEBSOCKET,   \* module constant read from the environment
    cls_instance,       \* WebSocketManager._instance: 0 (None) or the object
    initialized,        \* WebSocketManager._initialized
    server_running,     \* WebSocketManager.server_running
    websocket_thread,   \* WebSocketManager.websocket_thread: 0 (None) or the instance its thread runs
    mpc,                \* main thread inside start_server: "idle" | "set_running"
    \* websocket_server.py, one StockWebSocketServer per server thread
    spc,                \* server thread: "none" | "started" | "binding" | "serving" | "failed" |
                        \* "interrupted" | "dead"
    running,            \* self.running
    server,             \* self.server: "None" | "listening" | "closed"
    clients,            \* self.clients: the dictionary's entry array, in insertion order
    stock_data,         \* self.stock_data: symbol -> snapshot
    \* the update thread of each instance (broadcast_updates)
    bpc,                \* "none" | "while" | "union" | "fetch" | "hung" | "push" | "send" | "done" |
                        \* "crashed" | "killed"
    bexc,               \* source line of the exception that ended the thread, 0 if none
    all_symbols,        \* local all_symbols
    todo,               \* symbols `for symbol in all_symbols` has still to yield
    it_used,            \* dictionary iterator: the size recorded when it was created
    it_pos,             \* dictionary iterator: entries already passed
    symbol,             \* local symbol
    data,               \* local data
    cur,                \* local websocket
    \* connections and their handler coroutines
    transport,          \* "new" | "open" | "closed"
    hpc,                \* handler: "Connecting" | "Open" | "Closing" | "Closed"
    conn_server,        \* the instance whose handler serves the connection, 0 if none
    pending,            \* the frame a suspended `await websocket.send` of subscribe is about to write
    written,            \* the frame the last step wrote to a connection, NoWrite if none
    \* environment
    now,                \* datetime.now()
    \* history of the current broadcast cycle
    cycle,              \* per instance: what the cycle has fetched and pushed
    \* direct calls of the registry's methods
    ops,                \* the calls made so far
    raised              \* the exception the last call raised, "None" if none

mgrVars == <<ENABLE_WEBSOCKET, cls_instance, initialized, server_running, websocket_thread, mpc>>
srvVars == <<spc, running, server>>
regVars == <<clients, stock_data>>
bcVars == <<bpc, bexc, all_symbols, todo, it_used, it_pos, symbol, data, cur>>
connVars == <<transport, hpc, conn_server, pending>>
callVars == <<ops, raised>>
vars == <<mgrVars, srvVars, regVars, bcVars, connVars, written, now, cycle, callVars>>

----------------------------------------------------------------------------
(* self.clients: Dict[websocket, Set[str]].  A CPython dictionary keeps its  *)
(* entries in an array in insertion order; `del` leaves a dummy entry, an   *)
(* insertion appends.  An iterator holds the size the dictionary had when   *)
(* the iterator was created and a position in the array; every next()       *)
(* first compares the sizes and raises RuntimeError("dictionary changed     *)
(* size during iteration") when they differ.  The array is not compacted    *)
(* before its sixth insertion, which Conns never reaches.                   *)

Dummy == [ws |-> "<dummy>", subscriptions |-> {}]

Live(d) == {k \in DOMAIN d : d[k] # Dummy}

\* websocket in self.clients
Has(d, ws) == \E k \in Live(d) : d[k].ws = ws

\* the keys
Keys(d) == {d[k].ws : k \in Live(d)}

\* len(self.clients)
Size(d) == Cardinality(Live(d))

Index(d, ws) == CHOOSE k \in Live(d) : d[k].ws = ws

\* self.clients[websocket]
Lookup(d, ws) == d[Index(d, ws)].subscriptions

\* a registry whose connections share one set object
Store_shared(d, ws, value) ==
    IF Has(d, ws)
    THEN [k \in DOMAIN d |-> IF d[k] # Dummy THEN [d[k] EXCEPT !.subscriptions = value]
                                             ELSE d[k]]
    ELSE Append(d, [ws |-> ws, subscriptions |-> value])

\* self.clients[websocket] = value
Store(d, ws, value) ==
    IF Has(d, ws)
    THEN [d EXCEPT ![Index(d, ws)].subscriptions = value]
    ELSE Append(d, [ws |-> ws, subscriptions |-> value])

\* del self.clients[websocket]
Delete(d, ws) == [d EXCEPT ![Index(d, ws)] = Dummy]

\* the entries an iterator at position pos has still to yield
Ahead(d, pos) == {k \in Live(d) : k > pos}

Min(S) == CHOOSE x \in S : \A y \in S : x <= y

\* every symbol some registered connection is subscribed to
Union(d) == UNION {d[k].subscriptions : k \in Live(d)}

\* snapshotSubscribers of the registry
Subscribers(d, s) == {d[k].ws : k \in {j \in Live(d) : s \in d[j].subscriptions}}

----------------------------------------------------------------------------
(* Outbound frames *)

StockUpdate(s, snapshot) == [type |-> "stock_update", symbol |-> s, data |-> snapshot]
Pong(clock) == [type |-> "pong", symbol |-> <<>>, data |-> [timestamp |-> clock]]

NoFrame == [type |-> "none", symbol |-> <<>>, data |-> None]

\* a frame written to connection ws, with the code that wrote it: "subscribe",
\* "ping" or "broadcast"
Written(ws, frame, by) == [to |-> ws, frame |-> frame, by |-> by]

NoWrite == [to |-> "", frame |-> NoFrame, by |-> ""]

\* an empty dictionary
EmptyDict == [k \in {} |-> None]

\* history of one cycle of broadcast_updates: whether no connection was
\* subscribed to anything when it began (idle), the fetches made so far with their
\* outcome, and, for the push loop in progress, the subscribers of its symbol
\* that unregistered since it began (gone), those that have stayed registered,
\* subscribed and connected since it began (stable), and the connections it
\* has written the snapshot to (pushed)
NoCycle == [idle |-> FALSE, fetched |-> <<>>, gone |-> {}, stable |-> {}, pushed |-> <<>>]

----------------------------------------------------------------------------
Init ==
    /\ ENABLE_WEBSOCKET \in BOOLEAN
    /\ cls_instance = 1
    /\ initialized = TRUE
    /\ server_running = FALSE
    /\ websocket_thread = 0
    /\ mpc = "idle"
    /\ spc = [i \in Inst |-> "none"]
    /\ running = [i \in Inst |-> FALSE]
    /\ server = [i \in Inst |-> "None"]
    /\ clients = [i \in Inst |-> <<>>]
    /\ stock_data = [i \in Inst |-> EmptyDict]
    /\ bpc = [i \in Inst |-> "none"]
    /\ bexc = [i \in Inst |-> 0]
    /\ all_symbols = [i \in Inst |-> {}]
    /\ todo = [i \in Inst |-> {}]
    /\ it_used = [i \in Inst |-> 0]
    /\ it_pos = [i \in Inst |-> 0]
    /\ symbol = [i \in Inst |-> <<>>]
    /\ data = [i \in Inst |-> None]
    /\ cur = [i \in Inst |-> ""]
    /\ transport = [c \in Conns |-> "new"]
    /\ hpc = [c \in Conns |-> "Connecting"]
    /\ conn_server = [c \in Conns |-> 0]
    /\ pending = [c \in Conns |-> NoFrame]
    /\ written = NoWrite
    /\ now = 0
    /\ cycle = [i \in Inst |-> NoCycle]
    /\ ops = <<>>
    /\ raised = "None"

----------------------------------------------------------------------------
(* WebSocketManager, called from the main thread *)

\* an instance no thread has been created for
Fresh == {i \in Inst : spc[i] = "none" /\ \A j \in Inst : j < i => spc[j] # "none"}

\* start_server, up to thread.start(): lines 35-38
MgrStartThread(i) ==
    /\ mpc = "idle"
    /\ ~server_running /\ ENABLE_WEBSOCKET
    /\ i \in Fresh
    /\ websocket_thread' = i
    /\ spc' = [spc EXCEPT ![i] = "started"]
    /\ mpc' = "set_running"
    /\ written' = NoWrite
    /\ UNCHANGED <<ENABLE_WEBSOCKET, cls_instance, initialized, server_running, running, server,
                   regVars, bcVars, connVars, now, cycle>>
    /\ UNCHANGED callVars

\* start_server, line 39
MgrSetRunning ==
    /\ mpc = "set_running"
    /\ server_running' = TRUE
    /\ mpc' = "idle"
    /\ written' = NoWrite
    /\ UNCHANGED <<ENABLE_WEBSOCKET, cls_instance, initialized, websocket_thread, srvVars,
                   regVars, bcVars, connVars, now, cycle>>
    /\ UNCHANGED callVars

\* start_server when the server is running or disabled: lines 35, 41-42
MgrStartNoop ==
    /\ mpc = "idle"
    /\ server_running \/ ~ENABLE_WEBSOCKET
    /\ written' = NoWrite
    /\ UNCHANGED <<mgrVars, srvVars, regVars, bcVars, connVars, now, cycle>>
    /\ UNCHANGED callVars

\* stop_server: lines 52-57
stop_server ==
    /\ mpc = "idle"
    /\ server_running' = IF server_running /\ websocket_thread # 0
                         THEN FALSE ELSE server_running
    /\ written' = NoWrite
    /\ UNCHANGED <<ENABLE_WEBSOCKET, cls_instance, initialized, websocket_thread, mpc, srvVars,
                   regVars, bcVars, connVars, now, cycle>>
    /\ UNCHANGED callVars

----------------------------------------------------------------------------
(* The server thread: _run_server, run_server, StockWebSocketServer.start_server *)

\* run_server builds the server; start_server sets running and starts the
\* update thread before it binds: lines 241, 218-223
SrvStart(i) ==
    /\ spc[i] = "started"
    /\ running' = [running EXCEPT ![i] = TRUE]
    /\ bpc' = [bpc EXCEPT ![i] = "while"]
    /\ spc' = [spc EXCEPT ![i] = "binding"]
    /\ written' = NoWrite
    /\ UNCHANGED <<mgrVars, server, regVars, bexc, all_symbols, todo, it_used, it_pos,
                   symbol, data, cur, connVars, now, cycle>>
    /\ UNCHANGED callVars

\* the port is taken while another instance listens on it
PortFree == \A j \in Inst : server[j] # "listening"

\* await websockets.serve(...): line 226; then wait_closed, line 230
SrvBind(i) ==
    /\ spc[i] = "binding"
    /\ \/ /\ PortFree
          /\ server' = [server EXCEPT ![i] = "listening"]
          /\ spc' = [spc EXCEPT ![i] = "serving"]
       \/ /\ spc' = [spc EXCEPT ![i] = "failed"]
          /\ UNCHANGED server
    /\ written' = NoWrite
    /\ UNCHANGED <<mgrVars, running, regVars, bcVars, connVars, now, cycle>>
    /\ UNCHANGED callVars

\* StockWebSocketServer.stop: lines 232-237
stop(i) ==
    /\ running' = [running EXCEPT ![i] = FALSE]
    /\ server' = [server EXCEPT ![i] = IF server[i] = "None" THEN "None" ELSE "closed"]

\* the exception of a failed bind leaves start_server: run_server's finally
\* stops the server (247-248), _run_server's except clears the flag (48-50)
SrvAbort(i) ==
    /\ spc[i] = "failed"
    /\ stop(i)
    /\ server_running' = FALSE
    /\ spc' = [spc EXCEPT ![i] = "dead"]
    /\ written' = NoWrite
    /\ UNCHANGED <<ENABLE_WEBSOCKET, cls_instance, initialized, websocket_thread, mpc,
                   regVars, bcVars, connVars, now, cycle>>
    /\ UNCHANGED callVars

\* run_server in the main thread (lines 250-251): Ctrl-C raises
\* KeyboardInterrupt in asyncio.run (244), which cancels every task of the
\* server's loop, the handlers among them, and runs the loop until they end
SrvInterrupt(i) ==
    /\ spc[i] = "serving"
    /\ spc' = [spc EXCEPT ![i] = "interrupted"]
    /\ written' = NoWrite
    /\ UNCHANGED <<mgrVars, running, server, regVars, bcVars, connVars, now, cycle>>
    /\ UNCHANGED callVars

\* the handlers have ended and asyncio.run has closed the loop and raised
\* KeyboardInterrupt: run_server swallows it and stops the server, 245-248
SrvStop(i) ==
    /\ spc[i] = "interrupted"
    /\ \A c \in Conns : conn_server[c] = i => hpc[c] = "Closed"
    /\ stop(i)
    /\ spc' = [spc EXCEPT ![i] = "dead"]
    /\ written' = NoWrite
    /\ UNCHANGED <<mgrVars, regVars, bcVars, connVars, now, cycle>>
    /\ UNCHANGED callVars

----------------------------------------------------------------------------
(* The connection registry: register, unregister, subscribe, unsubscribe *)

\* a registry that keeps a list of connections and appends on every register
register_append(d, ws) == Append(d, [ws |-> ws, subscriptions |-> {}])

\* a register that leaves the set of a registered connection as it is
register_keep(d, ws) == IF Has(d, ws) THEN d ELSE Store(d, ws, {})

\* register: line 57
register(d, ws) == Store(d, ws, {})

\* an unregister that leaves the entry in place
unregister_never(d, ws) == d

\* unregister: lines 66-67
unregister(d, ws) == IF Has(d, ws) THEN Delete(d, ws) ELSE d

\* the set after self.clients[websocket].add(symbol.upper()): line 78
Added(subscriptions, s) == subscriptions \cup {Upper(s)}

\* a remove of the symbol as spelled in the frame
Removed_as_spelled(subscriptions, s) == subscriptions \ {s}

\* the set after the guarded remove of lines 95-96
Removed(subscriptions, s) ==
    IF Upper(s) \in subscriptions THEN subscriptions \ {Upper(s)} ELSE subscriptions

\* a subscribe that creates the entry of a connection it does not find
subscribe_unguarded(d, ws, j) ==
    IF j.t = "str"
    THEN Store(d, ws, Added(IF Has(d, ws) THEN Lookup(d, ws) ELSE {}, j.v))
    ELSE d

\* subscribe, up to its await: the registry after lines 77-78.  A symbol that
\* is no string has no upper(): the AttributeError leaves the registry as it is.
subscribe(d, ws, j) ==
    IF Has(d, ws) /\ j.t = "str" THEN Store(d, ws, Added(Lookup(d, ws), j.v)) ELSE d

\* a lookup of the cache under the symbol as spelled in the frame
InitialData_as_spelled(d, cache, ws, j) ==
    IF Has(d, ws) /\ j.t = "str" /\ j.v \in DOMAIN cache
    THEN StockUpdate(j.v, cache[j.v])
    ELSE NoFrame

\* a subscribe that sends whatever the cache has for the symbol, or an empty
\* update when it has nothing
InitialData_always(d, cache, ws, j) ==
    IF Has(d, ws) /\ j.t = "str"
    THEN StockUpdate(Upper(j.v), Get(cache, Upper(j.v), None))
    ELSE NoFrame

\* subscribe: the frame lines 80-85 are about to send, NoFrame if none
InitialData(d, cache, ws, j) ==
    IF Has(d, ws) /\ j.t = "str" /\ Upper(j.v) \in DOMAIN cache
    THEN StockUpdate(Upper(j.v), cache[Upper(j.v)])
    ELSE NoFrame

\* unsubscribe: the registry after lines 95-96
unsubscribe(d, ws, j) ==
    IF Has(d, ws) /\ j.t = "str" THEN Store(d, ws, Removed(Lookup(d, ws), j.v)) ELSE d

\* handle_message: the registry after the message, lines 106-129.  Text that
\* is not JSON raises JSONDecodeError, JSON that is no object has no get():
\* both are caught and logged.
handle_message(d, ws, m) ==
    IF m.kind # "object" THEN d
    ELSE IF m.action = "subscribe" /\ Truthy(m.symbol) THEN subscribe(d, ws, m.symbol)
    ELSE IF m.action = "unsubscribe" /\ Truthy(m.symbol) THEN unsubscribe(d, ws, m.symbol)
    ELSE d

\* a handler that has no answer to a ping
Reply_no_pong(d, cache, ws, m, clock) ==
    IF m.kind # "object" THEN NoFrame
    ELSE IF m.action = "subscribe" /\ Truthy(m.symbol)
         THEN InitialData(d, cache, ws, m.symbol)
    ELSE NoFrame

\* a handler that answers every frame it cannot use with an error frame
Reply_error(d, cache, ws, m, clock) ==
    IF m.kind # "object" THEN [type |-> "error", symbol |-> <<>>, data |-> None]
    ELSE IF m.action = "subscribe" /\ Truthy(m.symbol)
         THEN InitialData(d, cache, ws, m.symbol)
    ELSE IF m.action = "ping" THEN Pong(clock)
    ELSE IF m.action = "unsubscribe" THEN NoFrame
    ELSE [type |-> "error", symbol |-> <<>>, data |-> None]

\* handle_message: the frame its await of websocket.send is about to write
Reply(d, cache, ws, m, clock) ==
    IF m.kind # "object" THEN NoFrame
    ELSE IF m.action = "subscribe" /\ Truthy(m.symbol)
         THEN InitialData(d, cache, ws, m.symbol)
    ELSE IF m.action = "ping" THEN Pong(clock)
    ELSE NoFrame

\* await websocket.send(frame) on connection ws in the given state: what is
\* written.  On a closed connection send raises ConnectionClosed and writes
\* nothing.
Send(ws, state, frame, by) ==
    IF state = "open" THEN Written(ws, frame, by) ELSE NoWrite

----------------------------------------------------------------------------
(* History of the push loop in progress, kept as the handlers act *)

InPush(i) == bpc[i] \in {"push", "send"}

\* connection c stops being a stable subscriber of the symbol being pushed
Unstable(c) == [i \in Inst |-> [cycle[i] EXCEPT !.stable = @ \ {c}]]

\* c unsubscribes s
NoteUnsubscribe(c, m) ==
    [i \in Inst |->
        IF /\ i = conn_server[c] /\ InPush(i)
           /\ m.kind = "object" /\ m.action = "unsubscribe" /\ m.symbol.t = "str"
           /\ Upper(m.symbol.v) = symbol[i]
        THEN [cycle[i] EXCEPT !.stable = @ \ {c}]
        ELSE cycle[i]]

\* c is unregistered
NoteUnregister(c) ==
    [i \in Inst |->
        IF i = conn_server[c] /\ InPush(i) /\ Has(clients[i], c)
        THEN [cycle[i] EXCEPT
                !.stable = @ \ {c},
                !.gone = IF symbol[i] \in Lookup(clients[i], c) THEN @ \cup {c} ELSE @]
        ELSE cycle[i]]

----------------------------------------------------------------------------
(* Connections and the handler coroutine: handler, lines 131-145 *)

\* a client connects to the listening instance; its handler starts and
\* registers the connection: line 138
Accept(c, i) ==
    /\ transport[c] = "new"
    /\ server[i] = "listening"
    /\ spc[i] = "serving"
    /\ transport' = [transport EXCEPT ![c] = "open"]
    /\ conn_server' = [conn_server EXCEPT ![c] = i]
    /\ clients' = [clients EXCEPT ![i] = register(@, c)]
    /\ hpc' = [hpc EXCEPT ![c] = "Open"]
    /\ written' = NoWrite
    /\ UNCHANGED <<mgrVars, srvVars, stock_data, bcVars, pending, now, cycle>>
    /\ UNCHANGED callVars

\* the client goes away, or the network fails
ClientClose(c) ==
    /\ transport[c] = "open"
    /\ transport' = [transport EXCEPT ![c] = "closed"]
    /\ cycle' = Unstable(c)
    /\ written' = NoWrite
    /\ UNCHANGED <<mgrVars, srvVars, regVars, bcVars, hpc, conn_server, pending,
                   now>>
    /\ UNCHANGED callVars

\* `async for message in websocket` yields a frame; handle_message runs up
\* to its await.  (Frames that arrived before a close are taken as read
\* before it.)
Receive(c, m) ==
    /\ hpc[c] = "Open"
    /\ spc[conn_server[c]] = "serving"
    /\ pending[c] = NoFrame
    /\ transport[c] = "open"
    /\ UNCHANGED <<mgrVars, srvVars, stock_data, bcVars, transport, hpc, conn_server, now>>
    /\ UNCHANGED callVars
    /\ LET i == conn_server[c]
           reply == Reply(clients[i], stock_data[i], c, m, now)
       IN  /\ clients' = [clients EXCEPT ![i] = handle_message(@, c, m)]
           /\ IF reply.type = "pong"
              THEN /\ written' = Send(c, transport[c], reply, "ping")
                   /\ UNCHANGED pending
              ELSE /\ pending' = [pending EXCEPT ![c] = reply]
                   /\ written' = NoWrite
    /\ cycle' = NoteUnsubscribe(c, m)

\* subscribe's await websocket.send(...) of the cached snapshot: lines 81-85
SendInitial(c) ==
    /\ hpc[c] = "Open"
    /\ spc[conn_server[c]] = "serving"
    /\ pending[c] # NoFrame
    /\ written' = Send(c, transport[c], pending[c], "subscribe")
    /\ pending' = [pending EXCEPT ![c] = NoFrame]
    /\ UNCHANGED <<mgrVars, srvVars, regVars, bcVars, transport, hpc, conn_server,
                   now, cycle>>
    /\ UNCHANGED callVars

\* a handler without its finally clause: the read loop ends and so does it
ReadEnd_no_finally(c) ==
    /\ hpc[c] = "Open"
    /\ pending[c] = NoFrame
    /\ transport[c] = "closed"
    /\ hpc' = [hpc EXCEPT ![c] = "Closed"]
    /\ written' = NoWrite
    /\ UNCHANGED <<mgrVars, srvVars, regVars, bcVars, transport, conn_server, pending, now, cycle>>
    /\ UNCHANGED callVars

\* the read loop ends on a closed connection: lines 140-143
ReadEnd(c) ==
    /\ hpc[c] = "Open"
    /\ pending[c] = NoFrame
    /\ transport[c] = "closed"
    /\ hpc' = [hpc EXCEPT ![c] = "Closing"]
    /\ written' = NoWrite
    /\ UNCHANGED <<mgrVars, srvVars, regVars, bcVars, transport, conn_server, pending, now, cycle>>
    /\ UNCHANGED callVars

\* finally: await self.unregister(websocket): line 145
Unregister(c) ==
    /\ hpc[c] = "Closing"
    /\ clients' = [clients EXCEPT ![conn_server[c]] = unregister(@, c)]
    /\ hpc' = [hpc EXCEPT ![c] = "Closed"]
    /\ cycle' = NoteUnregister(c)
    /\ written' = NoWrite
    /\ UNCHANGED <<mgrVars, srvVars, stock_data, bcVars, transport, conn_server, pending, now>>
    /\ UNCHANGED callVars

\* the handler's task is cancelled: CancelledError is raised at the await it
\* is suspended in, the read of line 140 or the send of subscribe, and the
\* finally clause of line 144 is entered
Cancel(c) ==
    /\ hpc[c] = "Open"
    /\ spc[conn_server[c]] = "interrupted"
    /\ hpc' = [hpc EXCEPT ![c] = "Closing"]
    /\ pending' = [pending EXCEPT ![c] = NoFrame]
    /\ written' = NoWrite
    /\ UNCHANGED <<mgrVars, srvVars, regVars, bcVars, transport, conn_server, now, cycle>>
    /\ UNCHANGED callVars

----------------------------------------------------------------------------
(* The update thread: broadcast_updates, lines 178-205.  A local that the  *)
(* code overwrites before it reads it again (the iterator after its loop,   *)
(* websocket after the send, the locals of a cycle after the cycle) is put  *)
(* back to its initial value when it dies.                                   *)

\* next() of a dictionary iterator: "raise" when the size changed, "stop"
\* when no entry is left, else the index of the entry it yields
DictNext(d, used, pos) ==
    IF Size(d) # used THEN "raise"
    ELSE IF Ahead(d, pos) = {} THEN "stop"
    ELSE "yield"

\* `while self.running:` and the start of a cycle: lines 180-183
BcWhile(i) ==
    /\ bpc[i] = "while"
    /\ IF running[i]
       THEN /\ bpc' = [bpc EXCEPT ![i] = "union"]
            /\ it_used' = [it_used EXCEPT ![i] = Size(clients[i])]
            /\ cycle' = [cycle EXCEPT ![i].idle = Union(clients[i]) = {}]
       ELSE /\ bpc' = [bpc EXCEPT ![i] = "done"]
            /\ UNCHANGED <<it_used, cycle>>
    /\ written' = NoWrite
    /\ UNCHANGED <<mgrVars, srvVars, regVars, bexc, all_symbols, todo, it_pos, symbol, data,
                   cur, connVars, now>>
    /\ UNCHANGED callVars

\* the thread ends with the RuntimeError next() raised at the given line;
\* its frame, and with it every local, is gone
Raise(i, line) ==
    /\ bpc' = [bpc EXCEPT ![i] = "crashed"]
    /\ bexc' = [bexc EXCEPT ![i] = line]
    /\ all_symbols' = [all_symbols EXCEPT ![i] = {}]
    /\ todo' = [todo EXCEPT ![i] = {}]
    /\ it_used' = [it_used EXCEPT ![i] = 0]
    /\ it_pos' = [it_pos EXCEPT ![i] = 0]
    /\ symbol' = [symbol EXCEPT ![i] = <<>>]
    /\ data' = [data EXCEPT ![i] = None]
    /\ cur' = [cur EXCEPT ![i] = ""]
    /\ cycle' = [cycle EXCEPT ![i] = NoCycle]

\* a loop that also refreshes every symbol the cache holds
ToFetch_cached(i) == all_symbols[i] \cup DOMAIN stock_data[i]

\* the symbols `for symbol in all_symbols` visits: line 187
ToFetch(i) == all_symbols[i]

\* one round of `for subscriptions in self.clients.values()`: lines 183-184
BcUnion(i) ==
    /\ bpc[i] = "union"
    /\ LET d == clients[i]
           step == DictNext(d, it_used[i], it_pos[i])
           k == Min(Ahead(d, it_pos[i]))
       IN  CASE step = "raise" -> Raise(i, 183)
             [] step = "stop" ->
                  /\ bpc' = [bpc EXCEPT ![i] = "fetch"]
                  /\ todo' = [todo EXCEPT ![i] = ToFetch(i)]
                  /\ it_used' = [it_used EXCEPT ![i] = 0]
                  /\ it_pos' = [it_pos EXCEPT ![i] = 0]
                  /\ UNCHANGED <<bexc, all_symbols, symbol, data, cur, cycle>>
             [] OTHER ->
                  /\ all_symbols' = [all_symbols EXCEPT ![i] = @ \cup d[k].subscriptions]
                  /\ it_pos' = [it_pos EXCEPT ![i] = k]
                  /\ UNCHANGED <<bpc, bexc, todo, it_used, symbol, data, cur, cycle>>
    /\ written' = NoWrite
    /\ UNCHANGED <<mgrVars, srvVars, regVars, connVars, now>>
    /\ UNCHANGED callVars

\* the connections registered with s, subscribed and connected
OpenSubscribers(i, s) == {c \in Subscribers(clients[i], s) : transport[c] = "open"}

\* a loop that keeps a symbol whose fetch failed and fetches it again
AfterFetch_retry(rest, s, got) == IF got = None THEN rest ELSE rest \ {s}

\* the symbols `for symbol in all_symbols` has still to yield after the round
\* of s, whatever its fetch returned: line 187
AfterFetch(rest, s, got) == rest \ {s}

\* a test that takes every return value for a snapshot
Fetched_any(got) == TRUE

\* `if data:`, line 189: None is false, a snapshot, a dictionary of six
\* keys, is true
Fetched(got) == got # None

\* a cache that stores whatever the fetch returned
Cached_unguarded(cache, s, got) == (s :> got) @@ cache

\* a cache that drops the entry of a symbol whose fetch failed
Cached_evict(cache, s, got) ==
    IF Fetched(got) THEN (s :> got) @@ cache
    ELSE [k \in DOMAIN cache \ {s} |-> cache[k]]

\* a loop that pushes the snapshot and never stores it
Cached_never(cache, s, got) == cache

\* self.stock_data after lines 189-190
Cached(cache, s, got) == IF Fetched(got) THEN (s :> got) @@ cache ELSE cache

\* one round of `for symbol in all_symbols`: the fetch, and on success the
\* write of the cache and the start of the push loop: lines 187-193
BcFetch(i, s, resp) ==
    /\ bpc[i] = "fetch"
    /\ s \in todo[i]
    /\ symbol' = [symbol EXCEPT ![i] = s]
    /\ LET got == fetch_stock_data(resp, now + 1)
       IN  /\ data' = [data EXCEPT ![i] = got]
           /\ todo' = [todo EXCEPT ![i] = AfterFetch(@, s, got)]
           /\ stock_data' = [stock_data EXCEPT ![i] = Cached(@, s, got)]
           /\ IF got # None
              THEN now < MaxClock /\ now' = now + 1
              ELSE UNCHANGED now
           /\ IF Fetched(got)
              THEN /\ bpc' = [bpc EXCEPT ![i] = "push"]
                   /\ it_used' = [it_used EXCEPT ![i] = Size(clients[i])]
                   /\ it_pos' = [it_pos EXCEPT ![i] = 0]
                   /\ cycle' = [cycle EXCEPT ![i] =
                                  [@ EXCEPT
                                     !.fetched = Append(@, [symbol |-> s, ok |-> got # None]),
                                     !.gone = {},
                                     !.stable = OpenSubscribers(i, s),
                                     !.pushed = <<>>]]
              ELSE /\ cycle' = [cycle EXCEPT ![i].fetched =
                                  Append(@, [symbol |-> s, ok |-> got # None])]
                   /\ UNCHANGED <<bpc, it_used, it_pos>>
    /\ written' = NoWrite
    /\ UNCHANGED <<mgrVars, srvVars, clients, bexc, all_symbols, cur, connVars>>
    /\ UNCHANGED callVars

\* one round of `for websocket, subscriptions in self.clients.items()` up to
\* the test of line 194
BcPush(i) ==
    /\ bpc[i] = "push"
    /\ LET d == clients[i]
           step == DictNext(d, it_used[i], it_pos[i])
           k == Min(Ahead(d, it_pos[i]))
       IN  CASE step = "raise" -> Raise(i, 193)
             [] step = "stop" ->
                  /\ bpc' = [bpc EXCEPT ![i] = "fetch"]
                  /\ it_used' = [it_used EXCEPT ![i] = 0]
                  /\ it_pos' = [it_pos EXCEPT ![i] = 0]
                  /\ cycle' = [cycle EXCEPT ![i] =
                                 [@ EXCEPT !.gone = {}, !.stable = {}, !.pushed = <<>>]]
                  /\ UNCHANGED <<bexc, all_symbols, todo, symbol, data, cur>>
             [] OTHER ->
                  /\ it_pos' = [it_pos EXCEPT ![i] = k]
                  /\ IF symbol[i] \in d[k].subscriptions
                     THEN /\ cur' = [cur EXCEPT ![i] = d[k].ws]
                          /\ bpc' = [bpc EXCEPT ![i] = "send"]
                     ELSE UNCHANGED <<cur, bpc>>
                  /\ UNCHANGED <<bexc, all_symbols, todo, it_used, symbol, data, cycle>>
    /\ written' = NoWrite
    /\ UNCHANGED <<mgrVars, srvVars, regVars, connVars, now>>
    /\ UNCHANGED callVars

\* await websocket.send(...), ConnectionClosed swallowed: lines 195-202
BcSend(i) ==
    /\ bpc[i] = "send"
    /\ written' = Send(cur[i], transport[cur[i]], StockUpdate(symbol[i], data[i]),
                       "broadcast")
    /\ cycle' = [cycle EXCEPT ![i].pushed =
                   IF transport[cur[i]] = "open" THEN Append(@, cur[i]) ELSE @]
    /\ bpc' = [bpc EXCEPT ![i] = "push"]
    /\ cur' = [cur EXCEPT ![i] = ""]
    /\ UNCHANGED <<mgrVars, srvVars, regVars, bexc, all_symbols, todo, it_used, it_pos,
                   symbol, data, connVars, now>>
    /\ UNCHANGED callVars

\* requests.get(url) is called without a timeout: when the upstream accepts
\* the request and never answers, the call never returns, and the update
\* thread stays in line 159 for good
BcHang(i, s) ==
    /\ bpc[i] = "fetch"
    /\ s \in todo[i]
    /\ todo' = [todo EXCEPT ![i] = @ \ {s}]
    /\ symbol' = [symbol EXCEPT ![i] = s]
    /\ bpc' = [bpc EXCEPT ![i] = "hung"]
    /\ written' = NoWrite
    /\ UNCHANGED <<mgrVars, srvVars, regVars, bexc, all_symbols, it_used, it_pos, data, cur,
                   connVars, now, cycle>>
    /\ UNCHANGED callVars

\* the symbols are exhausted: await asyncio.sleep(5), then the loop head: line 205
BcSleep(i) ==
    /\ bpc[i] = "fetch"
    /\ todo[i] = {}
    /\ bpc' = [bpc EXCEPT ![i] = "while"]
    /\ all_symbols' = [all_symbols EXCEPT ![i] = {}]
    /\ symbol' = [symbol EXCEPT ![i] = <<>>]
    /\ data' = [data EXCEPT ![i] = None]
    /\ cycle' = [cycle EXCEPT ![i] = NoCycle]
    /\ written' = NoWrite
    /\ UNCHANGED <<mgrVars, srvVars, regVars, bexc, todo, it_used, it_pos, cur, connVars, now>>
    /\ UNCHANGED callVars

\* the update thread is a daemon thread (line 222) that nothing joins: when
\* the main thread has left run_server the interpreter exits and the thread
\* is ended wherever it is
BcKilled(i) ==
    /\ spc[i] = "dead"
    /\ bpc[i] \in {"while", "union", "fetch", "hung", "push", "send"}
    /\ bpc' = [bpc EXCEPT ![i] = "killed"]
    /\ written' = NoWrite
    /\ UNCHANGED <<mgrVars, srvVars, regVars, bexc, all_symbols, todo, it_used, it_pos,
                   symbol, data, cur, connVars, now, cycle>>
    /\ UNCHANGED callVars

----------------------------------------------------------------------------
(* The registry's methods called directly on a server, as a test does:      *)
(* await server.subscribe(ws, "aapl").  The connection objects are open.    *)

\* the exception subscribe raises: a symbol that is no string has no upper(),
\* which line 78 calls once the connection is found
SubscribeError(d, ws, j) == IF Has(d, ws) /\ j.t # "str" THEN "AttributeError" ELSE "None"

\* a remove without the membership test of line 95
UnsubscribeError_unguarded(d, ws, j) ==
    IF ~Has(d, ws) THEN "None"
    ELSE IF j.t # "str" THEN "AttributeError"
    ELSE IF Upper(j.v) \notin Lookup(d, ws) THEN "KeyError"
    ELSE "None"

\* the exception unsubscribe raises: the same for line 95, and never the
\* KeyError of set.remove, which line 96 calls on members only
UnsubscribeError(d, ws, j) == IF Has(d, ws) /\ j.t # "str" THEN "AttributeError" ELSE "None"

\* the exception unregister raises: none, line 66 guards the del
UnregisterError(d, ws) == "None"

Call(op, ws, j) == [op |-> op, ws |-> ws, symbol |-> j]

\* the last call made
Last == ops[Len(ops)]

CallRegister(ws) ==
    /\ Len(ops) < MaxOps
    /\ ops' = Append(ops, Call("register", ws, JNull))
    /\ clients' = [clients EXCEPT ![1] = register(@, ws)]
    /\ raised' = "None"
    /\ written' = NoWrite
    /\ UNCHANGED <<mgrVars, srvVars, stock_data, bcVars, connVars, now, cycle>>

CallUnregister(ws) ==
    /\ Len(ops) < MaxOps
    /\ ops' = Append(ops, Call("unregister", ws, JNull))
    /\ clients' = [clients EXCEPT ![1] = unregister(@, ws)]
    /\ raised' = UnregisterError(clients[1], ws)
    /\ written' = NoWrite
    /\ UNCHANGED <<mgrVars, srvVars, stock_data, bcVars, connVars, now, cycle>>

CallSubscribe(ws, j) ==
    /\ Len(ops) < MaxOps
    /\ ops' = Append(ops, Call("subscribe", ws, j))
    /\ clients' = [clients EXCEPT ![1] = subscribe(@, ws, j)]
    /\ raised' = SubscribeError(clients[1], ws, j)
    /\ LET frame == InitialData(clients[1], stock_data[1], ws, j)
       IN  written' = IF frame = NoFrame THEN NoWrite ELSE Send(ws, "open", frame, "subscribe")
    /\ UNCHANGED <<mgrVars, srvVars, stock_data, bcVars, connVars, now, cycle>>

CallUnsubscribe(ws, j) ==
    /\ Len(ops) < MaxOps
    /\ ops' = Append(ops, Call("unsubscribe", ws, j))
    /\ clients' = [clients EXCEPT ![1] = unsubscribe(@, ws, j)]
    /\ raised' = UnsubscribeError(clients[1], ws, j)
    /\ written' = NoWrite
    /\ UNCHANGED <<mgrVars, srvVars, stock_data, bcVars, connVars, now, cycle>>

\* the exception that leaves fetch_stock_data: none, the try of lines 158-176
\* catches Exception around the request and the reading of the response
FetchError(resp) == "None"

\* server.fetch_stock_data(symbol) with the upstream answering resp
CallFetch(resp) ==
    /\ Len(ops) < MaxOps
    /\ ops' = Append(ops, Call("fetch_stock_data", "", resp))
    /\ data' = [data EXCEPT ![1] = fetch_stock_data(resp, now)]
    /\ raised' = FetchError(resp)
    /\ written' = NoWrite
    /\ UNCHANGED <<mgrVars, srvVars, regVars, bpc, bexc, all_symbols, todo, it_used, it_pos,
                   symbol, cur, connVars, now, cycle>>

\* await server.handle_message(ws, text) with the text of frame m; no
\* exception leaves it (lines 126-129), and the connection object is open
CallHandleMessage(ws, m) ==
    /\ Len(ops) < MaxOps
    /\ ops' = Append(ops, Call("handle_message", ws, m))
    /\ clients' = [clients EXCEPT ![1] = handle_message(@, ws, m)]
    /\ raised' = "None"
    /\ LET reply == Reply(clients[1], stock_data[1], ws, m, now)
       IN  written' = IF reply = NoFrame THEN NoWrite
                      ELSE Send(ws, "open", reply,
                                IF reply.type = "pong" THEN "ping" ELSE "subscribe")
    /\ UNCHANGED <<mgrVars, srvVars, stock_data, bcVars, connVars, now, cycle>>

----------------------------------------------------------------------------
(* The manager's class constructed directly, as an importer does:             *)
(* WebSocketManager()                                                        *)

\* a __new__ that builds an object on every call
New_always(inst, fresh) == fresh

\* __new__: the object a construction returns, lines 22-24
New(inst, fresh) == IF inst = 0 THEN fresh ELSE inst

\* what a caller sees of a construction: the object returned and the
\* server_running it reads on it
Built(obj, flag) == [id |-> obj, server_running |-> flag]

\* WebSocketManager(): __new__ and __init__, lines 21-31.  The object the
\* first construction builds is the only one __init__ ever sets up.
Construct ==
    /\ mpc = "idle"
    /\ Len(ops) < MaxOps
    /\ LET obj == New(cls_instance, cls_instance + Len(ops) + 1)
           flag == IF initialized THEN server_running ELSE FALSE
       IN  /\ cls_instance' = IF cls_instance = 0 THEN obj ELSE cls_instance
           /\ server_running' = flag
           /\ websocket_thread' = IF initialized THEN websocket_thread ELSE 0
           /\ initialized' = TRUE
           /\ ops' = Append(ops, Call("WebSocketManager", "", Built(obj, flag)))
    /\ raised' = "None"
    /\ written' = NoWrite
    /\ UNCHANGED <<ENABLE_WEBSOCKET, mpc, srvVars, regVars, bcVars, connVars, now, cycle>>

----------------------------------------------------------------------------
(* Inputs *)

\* frames about one symbol in two spellings, and every frame that is ignored
MessagesOneSymbol ==
    {m \in Messages : m.symbol \notin {JStr(sym_MSFT)}}

\* subscribe frames about two symbols
MessagesTwoSymbols ==
    {m \in Messages : m.action = "subscribe" /\ m.symbol \in {JStr(sym_aapl), JStr(sym_MSFT)}}

\* one fetch that fails and one that succeeds
ResponsesTwoSymbols ==
    {r \in Responses : r.kind = "raise" \/ r.results = FullResults}

\* one subscribe frame
MessagesSubscribe ==
    {m \in Messages : m.action = "subscribe" /\ m.symbol = JStr(sym_aapl)}

----------------------------------------------------------------------------
(* The whole program *)

\* the main thread and the server threads
Lifecycle ==
    \/ \E i \in Inst : MgrStartThread(i)
    \/ MgrSetRunning
    \/ MgrStartNoop
    \/ stop_server
    \/ \E i \in Inst : SrvStart(i)
    \/ \E i \in Inst : SrvBind(i)
    \/ \E i \in Inst : SrvAbort(i)

\* the clients in C sending the frames in M, and their handlers
Handlers(C, M) ==
    \/ \E c \in C, i \in Inst : Accept(c, i)
    \/ \E c \in C : ClientClose(c)
    \/ \E c \in C, m \in M : Receive(c, m)
    \/ \E c \in C : SendInitial(c)
    \/ \E c \in C : ReadEnd(c)
    \/ \E c \in C : Unregister(c)

\* the update threads, with the upstream answering from R
Broadcast(R) ==
    \/ \E i \in Inst : BcWhile(i)
    \/ \E i \in Inst : BcUnion(i)
    \/ \E i \in Inst, resp \in R : \E s \in todo[i] : BcFetch(i, s, resp)
    \/ \E i \in Inst : BcPush(i)
    \/ \E i \in Inst : BcSend(i)
    \/ \E i \in Inst : BcSleep(i)

\* the program with one client that subscribes
Next == Lifecycle \/ Handlers({"c1"}, MessagesSubscribe) \/ Broadcast(Responses)

Spec == Init /\ [][Next]_vars

\* the steps the program takes by itself: those of the server threads, of the
\* update threads and of the handlers once a frame or a close has arrived
ServerSteps ==
    \/ MgrSetRunning
    \/ \E i \in Inst : SrvStart(i)
    \/ \E i \in Inst : SrvBind(i)
    \/ \E i \in Inst : SrvAbort(i)
    \/ \E c \in Conns : SendInitial(c)
    \/ \E c \in Conns : ReadEnd(c)
    \/ \E c \in Conns : Unregister(c)
    \/ Broadcast(Responses)

\* the program with its threads scheduled as long as they can take a step
SpecManaged == Init /\ [][Next]_vars /\ WF_vars(ServerSteps)

----------------------------------------------------------------------------
(* The manager's class from its definition on: the construction of line 60,
   further constructions by importers, and the calls of start_server and
   stop_server on the object, with the server threads they start. *)

InitClass ==
    /\ ENABLE_WEBSOCKET \in BOOLEAN
    /\ cls_instance = 0
    /\ initialized = FALSE
    /\ server_running = FALSE
    /\ websocket_thread = 0
    /\ mpc = "idle"
    /\ spc = [i \in Inst |-> "none"]
    /\ running = [i \in Inst |-> FALSE]
    /\ server = [i \in Inst |-> "None"]
    /\ clients = [i \in Inst |-> <<>>]
    /\ stock_data = [i \in Inst |-> EmptyDict]
    /\ bpc = [i \in Inst |-> "none"]
    /\ bexc = [i \in Inst |-> 0]
    /\ all_symbols = [i \in Inst |-> {}]
    /\ todo = [i \in Inst |-> {}]
    /\ it_used = [i \in Inst |-> 0]
    /\ it_pos = [i \in Inst |-> 0]
    /\ symbol = [i \in Inst |-> <<>>]
    /\ data = [i \in Inst |-> None]
    /\ cur = [i \in Inst |-> ""]
    /\ transport = [c \in Conns |-> "new"]
    /\ hpc = [c \in Conns |-> "Connecting"]
    /\ conn_server = [c \in Conns |-> 0]
    /\ pending = [c \in Conns |-> NoFrame]
    /\ written = NoWrite
    /\ now = 0
    /\ cycle = [i \in Inst |-> NoCycle]
    /\ ops = <<>>
    /\ raised = "None"

\* the methods are called on an object a construction has returned
NextClass ==
    \/ Construct
    \/ initialized /\ Lifecycle

SpecClass == InitClass /\ [][NextClass]_vars

----------------------------------------------------------------------------
(* The serving instance alone: the state the program is in once the manager
   has started instance 1 and its bind has succeeded, and from there the
   steps of its handlers and of its update thread. *)

InitServing ==
    /\ ENABLE_WEBSOCKET = TRUE
    /\ cls_instance = 1
    /\ initialized = TRUE
    /\ server_running = TRUE
    /\ websocket_thread = 1
    /\ mpc = "idle"
    /\ spc = [i \in Inst |-> IF i = 1 THEN "serving" ELSE "none"]
    /\ running = [i \in Inst |-> i = 1]
    /\ server = [i \in Inst |-> IF i = 1 THEN "listening" ELSE "None"]
    /\ clients = [i \in Inst |-> <<>>]
    /\ stock_data = [i \in Inst |-> EmptyDict]
    /\ bpc = [i \in Inst |-> IF i = 1 THEN "while" ELSE "none"]
    /\ bexc = [i \in Inst |-> 0]
    /\ all_symbols = [i \in Inst |-> {}]
    /\ todo = [i \in Inst |-> {}]
    /\ it_used = [i \in Inst |-> 0]
    /\ it_pos = [i \in Inst |-> 0]
    /\ symbol = [i \in Inst |-> <<>>]
    /\ data = [i \in Inst |-> None]
    /\ cur = [i \in Inst |-> ""]
    /\ transport = [c \in Conns |-> "new"]
    /\ hpc = [c \in Conns |-> "Connecting"]
    /\ conn_server = [c \in Conns |-> 0]
    /\ pending = [c \in Conns |-> NoFrame]
    /\ written = NoWrite
    /\ now = 0
    /\ cycle = [i \in Inst |-> NoCycle]
    /\ ops = <<>>
    /\ raised = "None"

\* two clients and one symbol
NextServing == Handlers(Conns, MessagesOneSymbol) \/ Broadcast(Responses)

SpecServing == InitServing /\ [][NextServing]_vars

\* two clients and two symbols
NextTwoSymbols == Handlers(Conns, MessagesTwoSymbols) \/ Broadcast(ResponsesTwoSymbols)

SpecTwoSymbols == InitServing /\ [][NextTwoSymbols]_vars

\* one client, two symbols and an upstream that may leave a request
\* unanswered; the update thread is scheduled as long as it can take a step
NextHang ==
    \/ Handlers({"c1"}, MessagesTwoSymbols)
    \/ Broadcast(ResponsesTwoSymbols)
    \/ \E i \in Inst : \E s \in todo[i] : BcHang(i, s)

SpecHang ==
    /\ InitServing
    /\ [][NextHang]_vars
    /\ WF_vars(Broadcast(ResponsesTwoSymbols))

----------------------------------------------------------------------------
(* The server run as a script, `python websocket_server.py`: run_server runs
   in the main thread, no manager exists, and Ctrl-C ends it.  The state is
   the one in which instance 1 has bound its port. *)

InitScript ==
    /\ ENABLE_WEBSOCKET = TRUE
    /\ cls_instance = 0
    /\ initialized = FALSE
    /\ server_running = FALSE
    /\ websocket_thread = 0
    /\ mpc = "idle"
    /\ spc = [i \in Inst |-> IF i = 1 THEN "serving" ELSE "none"]
    /\ running = [i \in Inst |-> i = 1]
    /\ server = [i \in Inst |-> IF i = 1 THEN "listening" ELSE "None"]
    /\ clients = [i \in Inst |-> <<>>]
    /\ stock_data = [i \in Inst |-> EmptyDict]
    /\ bpc = [i \in Inst |-> IF i = 1 THEN "while" ELSE "none"]
    /\ bexc = [i \in Inst |-> 0]
    /\ all_symbols = [i \in Inst |-> {}]
    /\ todo = [i \in Inst |-> {}]
    /\ it_used = [i \in Inst |-> 0]
    /\ it_pos = [i \in Inst |-> 0]
    /\ symbol = [i \in Inst |-> <<>>]
    /\ data = [i \in Inst |-> None]
    /\ cur = [i \in Inst |-> ""]
    /\ transport = [c \in Conns |-> "new"]
    /\ hpc = [c \in Conns |-> "Connecting"]
    /\ conn_server = [c \in Conns |-> 0]
    /\ pending = [c \in Conns |-> NoFrame]
    /\ written = NoWrite
    /\ now = 0
    /\ cycle = [i \in Inst |-> NoCycle]
    /\ ops = <<>>
    /\ raised = "None"

\* one client, one symbol, and the interrupt
NextScript ==
    \/ Handlers({"c1"}, MessagesSubscribe)
    \/ Broadcast(ResponsesTwoSymbols)
    \/ SrvInterrupt(1)
    \/ Cancel("c1")
    \/ SrvStop(1)
    \/ BcKilled(1)

SpecScript == InitScript /\ [][NextScript]_vars

----------------------------------------------------------------------------
(* The registry of one server driven by direct calls.  The server is one on
   which no thread runs: connection c1 may be registered already, and the
   cache may hold a snapshot of AAPL. *)

CallSymbols == {JStr(sym_aapl), JStr(sym_AAPL), JStr(sym_MSFT)}

InitRegistry ==
    /\ ENABLE_WEBSOCKET = TRUE
    /\ cls_instance = 1
    /\ initialized = TRUE
    /\ server_running = FALSE
    /\ websocket_thread = 0
    /\ mpc = "idle"
    /\ spc = [i \in Inst |-> "none"]
    /\ running = [i \in Inst |-> FALSE]
    /\ server = [i \in Inst |-> "None"]
    /\ clients \in {[i \in Inst |-> <<>>],
                    [i \in Inst |-> IF i = 1 THEN register(<<>>, "c1") ELSE <<>>]}
    /\ now = 1
    /\ stock_data \in {[i \in Inst |-> EmptyDict],
                       [i \in Inst |-> IF i = 1
                           THEN (sym_AAPL :> fetch_stock_data(
                                   [kind |-> "http", status |-> 200, results |-> FullResults], 1))
                           ELSE EmptyDict]}
    /\ bpc = [i \in Inst |-> "none"]
    /\ bexc = [i \in Inst |-> 0]
    /\ all_symbols = [i \in Inst |-> {}]
    /\ todo = [i \in Inst |-> {}]
    /\ it_used = [i \in Inst |-> 0]
    /\ it_pos = [i \in Inst |-> 0]
    /\ symbol = [i \in Inst |-> <<>>]
    /\ data = [i \in Inst |-> None]
    /\ cur = [i \in Inst |-> ""]
    /\ transport = [c \in Conns |-> "open"]
    /\ hpc = [c \in Conns |-> "Connecting"]
    /\ conn_server = [c \in Conns |-> 0]
    /\ pending = [c \in Conns |-> NoFrame]
    /\ written = NoWrite
    /\ cycle = [i \in Inst |-> NoCycle]
    /\ ops = <<>>
    /\ raised = "None"

NextRegistry ==
    \/ \E ws \in Conns : CallRegister(ws)
    \/ \E ws \in Conns : CallUnregister(ws)
    \/ \E ws \in Conns, j \in CallSymbols : CallSubscribe(ws, j)
    \/ \E ws \in Conns, j \in CallSymbols : CallUnsubscribe(ws, j)

SpecRegistry == InitRegistry /\ [][NextRegistry]_vars

----------------------------------------------------------------------------
(* The handling of frames driven by direct calls of handle_message, from the
   states InitRegistry describes. *)

\* one frame for each path through handle_message, and the subscribe and
\* unsubscribe frames without a symbol
CallMessages ==
    {m \in Messages : \/ m.kind # "object"
                      \/ m.action \in {"ping", "bogus"}
                      \/ m.action = "subscribe" /\ m.symbol \in {JStr(sym_aapl), JNum, JNull}
                      \/ m.symbol \in {JStr(<<>>), JNull}}

NextMessages ==
    \/ \E ws \in Conns : CallRegister(ws)
    \/ \E ws \in Conns, m \in CallMessages : CallHandleMessage(ws, m)

SpecMessages == InitRegistry /\ [][NextMessages]_vars

----------------------------------------------------------------------------
(* fetch_stock_data driven by direct calls, from the states InitRegistry
   describes. *)

\* the upstream's answers, and an error status that comes with a result
FetchResponses ==
    Responses \cup {[kind |-> "http", status |-> 500, results |-> FullResults]}

NextFetch == \E resp \in FetchResponses : CallFetch(resp)

SpecFetch == InitRegistry /\ [][NextFetch]_vars

----------------------------------------------------------------------------
(* Properties of the registry under direct calls (SpecRegistry) *)

\* a text without lower-case letters
IsUpper(s) == \A k \in DOMAIN s : s[k] \notin 97..122

\* the subscription set of connection ws on the server under test
Subscriptions(ws) == Lookup(clients[1], ws)

\* the calls made since the last register(ws), or since the start
SinceRegister(ws) ==
    LET regs == {k \in 1..Len(ops) : ops[k].op = "register" /\ ops[k].ws = ws}
        from == IF regs = {} THEN 0 ELSE CHOOSE k \in regs : \A l \in regs : l <= k
    IN  (from + 1)..Len(ops)

\* the calls among them that subscribe ws to, or unsubscribe it from, a
\* spelling of the upper-case symbol S
CallsOn(ws, S) ==
    {k \in SinceRegister(ws) : /\ ops[k].ws = ws
                               /\ ops[k].op \in {"subscribe", "unsubscribe"}
                               /\ Upper(ops[k].symbol.v) = S}

\* C1: after any sequence of subscribe and unsubscribe calls on a registered
\* connection, a symbol is in the connection's set exactly when the last
\* call on that symbol, case-normalized, was a subscribe
C1_SetSemantics ==
    \A ws \in Conns : Has(clients[1], ws) =>
        \A S \in {sym_AAPL, sym_MSFT} :
            S \in Subscriptions(ws) <=>
                /\ CallsOn(ws, S) # {}
                /\ LET k == CHOOSE k \in CallsOn(ws, S) : \A l \in CallsOn(ws, S) : l <= k
                   IN  ops[k].op = "subscribe"

\* two subscribes and then one unsubscribe have left c1 without the symbol
C1_Witness ==
    /\ ops = << Call("subscribe", "c1", JStr(sym_aapl)),
                Call("subscribe", "c1", JStr(sym_AAPL)),
                Call("unsubscribe", "c1", JStr(sym_aapl)) >>
    /\ Has(clients[1], "c1")
    /\ Subscriptions("c1") = {}

\* C9: every symbol stored in a subscription set is upper-case; a subscribe
\* to aapl stores AAPL and an unsubscribe from aapl removes AAPL
C9_UpperCase ==
    /\ \A i \in Inst : \A k \in DOMAIN clients[i] :
           \A s \in clients[i][k].subscriptions : IsUpper(s)
    /\ (ops # <<>> /\ Has(clients[1], Last.ws) /\ Last.symbol = JStr(sym_aapl)) =>
           /\ Last.op = "subscribe" => sym_AAPL \in Subscriptions(Last.ws)
           /\ Last.op = "unsubscribe" => sym_AAPL \notin Subscriptions(Last.ws)

\* c1 has subscribed to aapl and holds AAPL
C9_Witness ==
    /\ ops # <<>>
    /\ Last = Call("subscribe", "c1", JStr(sym_aapl))
    /\ Has(clients[1], "c1")
    /\ Subscriptions("c1") = {sym_AAPL}

\* the call this step makes
ThisCall == ops'[Len(ops')]

\* C10: a subscribe to a symbol the connection's set holds already, and an
\* unsubscribe from a symbol it does not hold, leave the registry exactly as
\* it was and raise no error
C10_NoOps ==
    [][(Len(ops') = Len(ops) + 1 /\ Has(clients[1], ThisCall.ws)) =>
          LET S == Upper(ThisCall.symbol.v)
              member == S \in Subscriptions(ThisCall.ws)
          IN  /\ (ThisCall.op = "subscribe" /\ member) =>
                     (clients' = clients /\ raised' = "None")
              /\ (ThisCall.op = "unsubscribe" /\ ~member) =>
                     (clients' = clients /\ raised' = "None")]_vars

\* c1, subscribed to AAPL only, has unsubscribed from MSFT
C10_Witness ==
    /\ Len(ops) = 2
    /\ ops[1] = Call("subscribe", "c1", JStr(sym_AAPL))
    /\ ops[2] = Call("unsubscribe", "c1", JStr(sym_MSFT))
    /\ Has(clients[1], "c1")
    /\ Subscriptions("c1") = {sym_AAPL}
    /\ raised = "None"

\* the entries of connection ws
Entries(d, ws) == {k \in DOMAIN d : d[k].ws = ws}

\* every connection but ws has the entry in d2 it has in d1
OthersKept(d1, d2, ws) ==
    \A o \in Conns \ {ws} :
        /\ Has(d2, o) <=> Has(d1, o)
        /\ Has(d1, o) => Lookup(d2, o) = Lookup(d1, o)

\* C11: an unregister of a connection that is not registered, and a register
\* of one that is, raise no error; after them every connection has at most
\* one entry and the entries of the other connections are as they were
C11_Idempotent ==
    [][(/\ Len(ops') = Len(ops) + 1
        /\ \/ ThisCall.op = "unregister" /\ ~Has(clients[1], ThisCall.ws)
           \/ ThisCall.op = "register" /\ Has(clients[1], ThisCall.ws))
       => /\ raised' = "None"
          /\ \A ws \in Conns : Cardinality(Entries(clients'[1], ws)) <= 1
          /\ OthersKept(clients[1], clients'[1], ThisCall.ws)
          /\ ThisCall.op = "unregister" => clients' = clients
          /\ ThisCall.op = "register" => Has(clients'[1], ThisCall.ws)]_vars

\* c1 has been registered twice and c2, never registered, unregistered
C11_Witness ==
    /\ ops = << Call("register", "c1", JNull), Call("register", "c1", JNull),
                Call("unregister", "c2", JNull) >>
    /\ Cardinality(Entries(clients[1], "c1")) = 1
    /\ ~Has(clients[1], "c2")
    /\ raised = "None"

\* C32: a subscribe of connection ws writes to no connection but ws, and
\* what it writes is the cached snapshot of the upper-cased symbol; when the
\* cache has none it writes nothing
C32_SubscribeSends ==
    [][(Len(ops') = Len(ops) + 1 /\ ThisCall.op = "subscribe") =>
          LET S == Upper(ThisCall.symbol.v)
          IN  /\ written'.to \in {"", ThisCall.ws}
              /\ S \notin DOMAIN stock_data[1] => written' = NoWrite
              /\ written' # NoWrite =>
                     /\ Has(clients[1], ThisCall.ws)
                     /\ written' = Written(ThisCall.ws, StockUpdate(S, stock_data[1][S]),
                                           "subscribe")]_vars

\* with AAPL cached and both connections registered, c2 has subscribed to
\* MSFT and been sent nothing, then to aapl and been sent the snapshot
C32_Witness ==
    /\ Len(ops) = 3
    /\ ops[2] = Call("subscribe", "c2", JStr(sym_MSFT))
    /\ ops[3] = Call("subscribe", "c2", JStr(sym_aapl))
    /\ Has(clients[1], "c1") /\ Has(clients[1], "c2")
    /\ sym_AAPL \in DOMAIN stock_data[1]
    /\ sym_MSFT \notin DOMAIN stock_data[1]
    /\ written = Written("c2", StockUpdate(sym_AAPL, stock_data[1][sym_AAPL]), "subscribe")

\* C33: after a register the connection is registered with an empty
\* subscription set, whatever its set held before the call
C33_RegisterEmpties ==
    [][(Len(ops') = Len(ops) + 1 /\ ThisCall.op = "register") =>
          /\ Has(clients'[1], ThisCall.ws)
          /\ Lookup(clients'[1], ThisCall.ws) = {}
          /\ raised' = "None"]_vars

\* c1 has been registered, subscribed to AAPL and registered again
C33_Witness ==
    /\ ops = << Call("register", "c1", JNull),
                Call("subscribe", "c1", JStr(sym_aapl)),
                Call("register", "c1", JNull) >>
    /\ Has(clients[1], "c1")
    /\ Subscriptions("c1") = {}

\* C34: a subscribe or an unsubscribe of a connection that is not in the
\* registry leaves the registry as it was, writes nothing and raises nothing
C34_Unregistered ==
    [][(/\ Len(ops') = Len(ops) + 1
        /\ ThisCall.op \in {"subscribe", "unsubscribe"}
        /\ ~Has(clients[1], ThisCall.ws))
       => /\ clients' = clients
          /\ written' = NoWrite
          /\ raised' = "None"]_vars

\* c2 has been registered and unregistered and has then subscribed to AAPL,
\* which is cached
C34_Witness ==
    /\ ops = << Call("register", "c2", JNull),
                Call("unregister", "c2", JNull),
                Call("subscribe", "c2", JStr(sym_AAPL)) >>
    /\ sym_AAPL \in DOMAIN stock_data[1]
    /\ ~Has(clients[1], "c2")
    /\ written = NoWrite
    /\ raised = "None"

----------------------------------------------------------------------------
(* Properties of handle_message under direct calls (SpecMessages) *)

\* the frames handle_message has no use for: text that is not JSON, JSON that
\* is no object, an unknown action, a subscribe without a symbol or with a
\* symbol that is no text
IgnoredFrames ==
    {m \in CallMessages : \/ m.kind # "object"
                          \/ m.action = "bogus"
                          \/ m.action = "subscribe" /\ m.symbol \in {JNum, JNull}}

\* C18: a frame with an unknown action, or one that is not the expected
\* payload, is ignored: handle_message returns without an exception, so the
\* read loop goes on, the registry and the cache are as they were and nothing
\* is written to any connection
C18_Ignored ==
    [][(/\ Len(ops') = Len(ops) + 1
        /\ ThisCall.op = "handle_message"
        /\ ThisCall.symbol \in IgnoredFrames)
       => /\ clients' = clients
          /\ stock_data' = stock_data
          /\ written' = NoWrite
          /\ raised' = "None"]_vars

\* c1 has sent text that is no JSON, then an unknown action, then a subscribe
\* that was handled
C18_Witness ==
    /\ Len(ops) = 3
    /\ ops[1].op = "handle_message" /\ ops[1].ws = "c1" /\ ops[1].symbol.kind = "garbage"
    /\ ops[2].op = "handle_message" /\ ops[2].ws = "c1" /\ ops[2].symbol.action = "bogus"
    /\ ops[3].op = "handle_message" /\ ops[3].ws = "c1"
    /\ ops[3].symbol.action = "subscribe" /\ ops[3].symbol.symbol = JStr(sym_aapl)
    /\ Has(clients[1], "c1")
    /\ Subscriptions("c1") = {sym_AAPL}
    /\ raised = "None"

\* the subscribe and unsubscribe frames whose symbol is missing or empty
NoSymbolFrames ==
    {m \in CallMessages : /\ m.kind = "object"
                          /\ m.action \in {"subscribe", "unsubscribe"}
                          /\ m.symbol \in {JStr(<<>>), JNull}}

\* C35: a subscribe or unsubscribe frame whose symbol is missing or empty
\* leaves the registry and the cache as they were and writes nothing, and
\* handle_message returns without an exception, so that the handler stays in
\* its read loop
C35_NoSymbol ==
    [][(/\ Len(ops') = Len(ops) + 1
        /\ ThisCall.op = "handle_message"
        /\ ThisCall.symbol \in NoSymbolFrames)
       => /\ clients' = clients
          /\ stock_data' = stock_data
          /\ written' = NoWrite
          /\ raised' = "None"
          /\ hpc' = hpc]_vars

\* c1, registered and subscribed to AAPL, has sent a subscribe with an empty
\* symbol and an unsubscribe without one, and its set is as it was
C35_Witness ==
    /\ Len(ops) = 3
    /\ ops[1].op = "handle_message" /\ ops[1].ws = "c1"
    /\ ops[1].symbol.action = "subscribe" /\ ops[1].symbol.symbol = JStr(sym_aapl)
    /\ ops[2].op = "handle_message" /\ ops[2].ws = "c1"
    /\ ops[2].symbol.action = "subscribe" /\ ops[2].symbol.symbol = JStr(<<>>)
    /\ ops[3].op = "handle_message" /\ ops[3].ws = "c1"
    /\ ops[3].symbol.action = "unsubscribe" /\ ops[3].symbol.symbol = JNull
    /\ Has(clients[1], "c1")
    /\ Subscriptions("c1") = {sym_AAPL}
    /\ raised = "None"

----------------------------------------------------------------------------
(* Properties of fetch_stock_data under direct calls (SpecFetch) *)

\* the answers fetch_stock_data takes for a failure: the transport raised,
\* the status is not 200, or the payload has no result
FailedResponse(r) == r.kind = "raise" \/ r.status # 200 \/ DOMAIN r.results = {}

\* C28: fetch_stock_data raises nothing; on a failed response it returns
\* None, on any other a snapshot of six fields that holds the fields of the
\* result, or their defaults, and the time of the fetch
C28_FetchResult ==
    (ops # <<>> /\ Last.op = "fetch_stock_data") =>
        LET r == Last.symbol
            got == data[1]
        IN  /\ raised = "None"
            /\ FailedResponse(r) => got = None
            /\ ~FailedResponse(r) =>
                   /\ got # None
                   /\ DOMAIN got = {"price", "size", "timestamp", "exchange", "conditions",
                                    "updated_at"}
                   /\ got.price = Get(r.results, "p", 0)
                   /\ got.size = Get(r.results, "s", 0)
                   /\ got.timestamp = Get(r.results, "t", 0)
                   /\ got.exchange = Get(r.results, "x", 0)
                   /\ got.conditions = Get(r.results, "c", <<>>)
                   /\ got.updated_at = now

\* a transport error, an error status with a result and a result with a
\* price only have been fetched: the last call returned a snapshot
C28_Witness ==
    /\ Len(ops) = 3
    /\ ops[1].op = "fetch_stock_data" /\ ops[1].symbol.kind = "raise"
    /\ ops[2].op = "fetch_stock_data" /\ ops[2].symbol.status = 500
    /\ ops[2].symbol.results = FullResults
    /\ ops[3].op = "fetch_stock_data" /\ ops[3].symbol.results = PriceOnly
    /\ data[1] # None
    /\ data[1].price = 151 /\ data[1].size = 0
    /\ raised = "None"

----------------------------------------------------------------------------
(* Properties of the serving instance (SpecServing, SpecTwoSymbols) *)

\* the update thread of instance i leaves its push loop: the loop has
\* visited every connection, or next() has raised
LeavesPush(i) == bpc[i] = "push" /\ bpc'[i] \in {"fetch", "crashed"}

\* how many times the push loop in progress has written to connection c
Pushes(i, c) == Cardinality({k \in DOMAIN cycle[i].pushed : cycle[i].pushed[k] = c})

\* C2: when a subscriber of the symbol being pushed disconnects while the
\* push loop runs, the loop goes on without raising
C2_DisconnectMidPush ==
    [][\A i \in Inst : (InPush(i) /\ cycle[i].gone # {}) => bpc'[i] # "crashed"]_vars

\* C3: when the fetch of one symbol has failed in a cycle and the fetch of
\* another succeeds, the snapshot of the other is cached and pushed to each
\* of its subscribers before the cycle leaves that symbol
C3_FaultIsolation ==
    [][\A i \in Inst :
          (/\ LeavesPush(i)
           /\ \E k \in DOMAIN cycle[i].fetched :
                  ~cycle[i].fetched[k].ok /\ cycle[i].fetched[k].symbol # symbol[i])
          => /\ symbol[i] \in DOMAIN stock_data[i]
             /\ stock_data[i][symbol[i]] = data[i]
             /\ \A c \in cycle[i].stable : Pushes(i, c) >= 1]_vars

\* the frames that subscribe to a symbol
SubscribeFrames ==
    {[kind |-> "object", action |-> "subscribe", symbol |-> JStr(s)] :
        s \in {sym_aapl, sym_AAPL, sym_MSFT}}

C7_PushToAll ==
    [][\A i \in Inst : LeavesPush(i) => \A c \in cycle[i].stable : Pushes(i, c) = 1]_vars

\* C8 as stated: a cycle that starts while no connection is subscribed to
\* anything makes no fetch and no push
C8_IdleAtStart ==
    \A i \in Inst : cycle[i].idle => (cycle[i].fetched = <<>> /\ ~InPush(i))

\* C8: a cycle whose union all_symbols is empty makes no fetch and no push,
\* and no cycle fetches a symbol outside its union
C8_EmptyUnion ==
    \A i \in Inst :
        /\ (bpc[i] \in {"fetch", "push", "send"} /\ all_symbols[i] = {}) =>
               (cycle[i].fetched = <<>> /\ ~InPush(i))
        /\ \A k \in DOMAIN cycle[i].fetched : cycle[i].fetched[k].symbol \in all_symbols[i]

\* a cycle has found its union empty with a connection registered and a
\* snapshot cached
C8_Witness ==
    /\ bpc[1] = "fetch"
    /\ all_symbols[1] = {}
    /\ cycle[1].idle
    /\ Size(clients[1]) > 0
    /\ sym_AAPL \in DOMAIN stock_data[1]

\* the frames that subscribe to or unsubscribe from a symbol
RegistryFrames ==
    {m \in Messages : m.kind = "object" /\ m.action \in {"subscribe", "unsubscribe"}}

\* C12: the subscription set of a registered connection changes only in the
\* handling of a subscribe or unsubscribe frame of that connection, a step
\* that leaves the set of every other connection as it was; no step of a
\* broadcast cycle changes the registry
C12_Frame ==
    [][/\ \A c \in Conns :
             LET d1 == clients[conn_server[c]]
                 d2 == clients'[conn_server[c]]
             IN  (/\ conn_server[c] # 0
                  /\ Has(d1, c) /\ Has(d2, c)
                  /\ Lookup(d2, c) # Lookup(d1, c))
                 => /\ \E m \in RegistryFrames : Receive(c, m)
                    /\ OthersKept(d1, d2, c)
       /\ bcVars' # bcVars => clients' = clients]_vars

\* a push loop has written to both subscribers of AAPL, and both list it
C12_Witness ==
    /\ bpc[1] = "push"
    /\ {cycle[1].pushed[k] : k \in DOMAIN cycle[1].pushed} = {"c1", "c2"}
    /\ sym_AAPL \in Lookup(clients[1], "c1")
    /\ sym_AAPL \in Lookup(clients[1], "c2")

\* the update thread of instance i is in a read of the registry: its
\* iterator over self.clients is live
Reading(i) == bpc[i] = "union" \/ InPush(i)

\* C13: while the broadcast loop reads the registry, to compute the union or
\* to look up the subscribers of a symbol, no register, unregister, subscribe
\* or unsubscribe changes it
C13_MutualExclusion ==
    [][\A i \in Inst : Reading(i) => clients'[i] = clients[i]]_vars

\* C14: as long as the server is running its broadcast loop has not ended:
\* no failed fetch, malformed frame or closing connection terminates it
C14_LoopSurvives ==
    \A i \in Inst : running[i] => bpc[i] \notin {"crashed", "done"}

\* C16: a connection whose handler has finished is no key of any registry,
\* and every key of a registry is a connection whose handler has not
\* finished, whatever the broadcast loop is doing
C16_KeysAreLive ==
    \A c \in Conns, i \in Inst :
        /\ hpc[c] = "Closed" => ~Has(clients[i], c)
        /\ Has(clients[i], c) => (hpc[c] \in {"Open", "Closing"} /\ conn_server[c] = i)

\* c1, a subscriber of the symbol being pushed, has left during the push loop
C16_Witness ==
    /\ hpc["c1"] = "Closed"
    /\ InPush(1)
    /\ "c1" \in cycle[1].gone
    /\ ~Has(clients[1], "c1")

\* C17: a handler goes from Connecting to Open to Closing to Closed; it
\* registers its connection on entering Open and unregisters it on leaving
\* Closing, and once in Closing it handles no frame: it changes neither its
\* subscriptions nor its pending reply and writes nothing
C17_HandlerStates ==
    [][\A c \in Conns :
          LET d1 == clients[conn_server'[c]]
              d2 == clients'[conn_server'[c]]
          IN  /\ hpc'[c] # hpc[c] =>
                    <<hpc[c], hpc'[c]>> \in {<<"Connecting", "Open">>, <<"Open", "Closing">>,
                                            <<"Closing", "Closed">>}
              /\ (hpc[c] = "Connecting" /\ hpc'[c] = "Open") => (~Has(d1, c) /\ Has(d2, c))
              /\ (hpc[c] = "Closing" /\ hpc'[c] = "Closed") => (Has(d1, c) /\ ~Has(d2, c))
              /\ (hpc[c] = "Open" /\ hpc'[c] = "Closing") => d2 = d1
              /\ (hpc[c] = "Closing" /\ hpc'[c] = "Closing") =>
                    /\ Has(d2, c) /\ Lookup(d2, c) = Lookup(d1, c)
                    /\ pending'[c] = pending[c]
                    /\ ~(written'.to = c /\ written'.by \in {"subscribe", "ping"})
              /\ hpc[c] \in {"Closing", "Closed"} => \A m \in Messages : ~Receive(c, m)]_vars

\* the handler of c1 has unregistered it and ended
C17_Witness ==
    /\ hpc["c1"] = "Closed"
    /\ transport["c1"] = "closed"
    /\ ~Has(clients[1], "c1")
    /\ hpc["c2"] = "Closing"
    /\ Has(clients[1], "c2")

\* the frame {"action": "ping"}
PingFrame == [kind |-> "object", action |-> "ping", symbol |-> JNull]

\* C19: the handling of a ping writes one pong, stamped with the server's
\* time, to the connection that sent it, in the same step and whatever the
\* broadcast loop is doing, and leaves the registry and the cache as they
\* were; no pong is written otherwise
C19_Pong ==
    [][/\ \A c \in Conns :
             (hpc[c] = "Open" /\ Receive(c, PingFrame))
             => /\ written' = Written(c, Pong(now), "ping")
                /\ clients' = clients
                /\ stock_data' = stock_data
                /\ pending' = pending
                /\ bcVars' = bcVars
       /\ written'.by = "ping" =>
             (written'.to \in Conns /\ Receive(written'.to, PingFrame))]_vars

\* c1, subscribed to nothing, has been sent a pong while a push loop runs
C19_Witness ==
    /\ written = Written("c1", Pong(now), "ping")
    /\ InPush(1)
    /\ Has(clients[1], "c1")
    /\ Lookup(clients[1], "c1") = {}

\* the push loop in progress on instance i has written its snapshot to c
PushedTo(i, c) == InPush(i) /\ Pushes(i, c) >= 1

\* C20: a connection is never sent an older snapshot of a symbol after a
\* newer one: the snapshot a subscribe sends to a connection that the push
\* loop in progress has already written to is not older than the loop's
C20_FetchOrder ==
    [][\A c \in Conns :
          (/\ written'.to = c /\ written'.by = "subscribe"
           /\ conn_server[c] # 0
           /\ PushedTo(conn_server[c], c)
           /\ written'.frame.symbol = symbol[conn_server[c]])
          => written'.frame.data.updated_at >= data[conn_server[c]].updated_at]_vars

\* C21: no stock_update is pushed in a cycle while a symbol of the cycle's
\* union has still to be fetched
C21_PushAfterFetches ==
    \A i \in Inst, c \in Conns :
        (written.by = "broadcast" /\ written.to = c /\ conn_server[c] = i)
        => todo[i] = {}

\* C22: a fetch that hangs is in the end given up as a failure, and the
\* cycle goes on to the symbols it has still to fetch
C22_HangIsolated ==
    \A i \in Inst : (bpc[i] = "hung") ~> (bpc[i] # "hung")

\* the update thread of instance i is between the union and the sleep of a cycle
InCycle(i) == bpc[i] \in {"fetch", "push", "send"}

\* the symbols the cycle of instance i has fetched
FetchedSymbols(i) == {cycle[i].fetched[k].symbol : k \in DOMAIN cycle[i].fetched}

SnapshotFields == {"price", "size", "timestamp", "exchange", "conditions", "updated_at"}

\* C24: the cache of an instance changes only in a round of its broadcast
\* loop whose fetch succeeded; the step stores the whole snapshot the fetch
\* returned under the fetched symbol and leaves every other entry, and the
\* handlers, as they were
C24_CacheWrites ==
    [][\A i \in Inst :
          stock_data'[i] # stock_data[i] =>
              /\ bpc[i] = "fetch" /\ bpc'[i] = "push"
              /\ symbol'[i] \in todo[i]
              /\ data'[i] # None
              /\ DOMAIN data'[i] = SnapshotFields
              /\ stock_data'[i] = (symbol'[i] :> data'[i]) @@ stock_data[i]
              /\ clients' = clients
              /\ connVars' = connVars]_vars

\* the fetch of AAPL has failed in a cycle that found its earlier snapshot
\* cached, and the snapshot is still there
C24_Witness ==
    /\ bpc[1] = "fetch"
    /\ cycle[1].fetched = << [symbol |-> sym_AAPL, ok |-> FALSE] >>
    /\ sym_AAPL \in DOMAIN stock_data[1]
    /\ stock_data[1][sym_AAPL].updated_at = 1
    /\ now = 1

\* the outcome of the fetch of symbol s in the cycle of instance i
FetchesOf(i, s) == {k \in DOMAIN cycle[i].fetched : cycle[i].fetched[k].symbol = s}

\* C25: every frame the server writes is a stock_update or a pong; a frame
\* the broadcast loop writes is a stock_update of the symbol whose fetch has
\* just succeeded, with the snapshot that fetch returned, so nothing is sent
\* about a symbol whose fetch failed in the cycle
C25_NoErrorFrames ==
    /\ written # NoWrite => written.frame.type \in {"stock_update", "pong"}
    /\ \A i \in Inst :
          (written.by = "broadcast" /\ conn_server[written.to] = i) =>
              /\ written.frame.type = "stock_update"
              /\ written.frame.symbol = symbol[i]
              /\ written.frame.data = data[i]
              /\ DOMAIN written.frame.data = SnapshotFields
              /\ FetchesOf(i, written.frame.symbol) # {}
              /\ \A k \in FetchesOf(i, written.frame.symbol) : cycle[i].fetched[k].ok

\* the fetch of AAPL has failed in a cycle and the cycle is about to sleep:
\* c1, connected and subscribed to AAPL, has been sent nothing by it
C25_Witness ==
    /\ bpc[1] = "fetch"
    /\ todo[1] = {}
    /\ cycle[1].fetched = << [symbol |-> sym_AAPL, ok |-> FALSE] >>
    /\ Has(clients[1], "c1")
    /\ sym_AAPL \in Lookup(clients[1], "c1")
    /\ transport["c1"] = "open"
    /\ written = NoWrite

\* C26: once stop has been called, the cycle in flight runs on to its sleep:
\* the update thread does not end before it
C26_CycleFinishes ==
    [][\A i \in Inst :
          (~running[i] /\ bpc[i] \in {"union", "fetch", "push", "send"})
          => bpc'[i] \notin {"crashed", "killed"}]_vars

\* C29: a symbol that has an entry in the cache of an instance has one after
\* every step, whatever connections subscribe, unsubscribe or disconnect and
\* whatever its later fetches return
C29_NeverDeleted ==
    [][\A i \in Inst : DOMAIN stock_data[i] \subseteq DOMAIN stock_data'[i]]_vars

\* the snapshot of AAPL is cached, its subscribers have both disconnected
\* and been unregistered, and a later cycle has found nothing to fetch
C29_Witness ==
    /\ sym_AAPL \in DOMAIN stock_data[1]
    /\ hpc["c1"] = "Closed" /\ hpc["c2"] = "Closed"
    /\ Size(clients[1]) = 0
    /\ bpc[1] = "fetch"
    /\ cycle[1].idle
    /\ all_symbols[1] = {}

\* C30: when the broadcast loop writes a stock_update to a connection, the
\* connection is registered and the symbol is in its subscription set
C30_PushToSubscribers ==
    \A c \in Conns :
        (written.by = "broadcast" /\ written.to = c) =>
            /\ conn_server[c] # 0
            /\ Has(clients[conn_server[c]], c)
            /\ written.frame.symbol \in Lookup(clients[conn_server[c]], c)

\* C31: when the broadcast loop writes a stock_update of a symbol, the cache
\* of its instance holds a snapshot of the symbol that is the one written or
\* a newer one
C31_CacheBeforePush ==
    \A c \in Conns :
        (written.by = "broadcast" /\ written.to = c) =>
            LET cache == stock_data[conn_server[c]]
                S == written.frame.symbol
            IN  /\ S \in DOMAIN cache
                /\ \/ cache[S] = written.frame.data
                   \/ cache[S].updated_at > written.frame.data.updated_at

\* the second snapshot of AAPL has replaced the first in the cache and has
\* been pushed to c1
C31_Witness ==
    /\ written.by = "broadcast" /\ written.to = "c1"
    /\ written.frame.symbol = sym_AAPL
    /\ written.frame.data.updated_at = 2
    /\ sym_AAPL \in DOMAIN stock_data[1]
    /\ stock_data[1][sym_AAPL] = written.frame.data

----------------------------------------------------------------------------
(* Properties of the server's lifecycle (Spec) *)

\* the update thread of instance i runs
LoopLive(i) == bpc[i] \in {"while", "union", "fetch", "push", "send"}

\* C4: at most one listening server and at most one broadcast loop are live
\* at any time
C4_Singleton ==
    /\ Cardinality({i \in Inst : server[i] = "listening"}) <= 1
    /\ Cardinality({i \in Inst : LoopLive(i)}) <= 1

\* stop_server returns on a running server
StopStep ==
    /\ mpc = "idle" /\ mpc' = "idle"
    /\ server_running /\ ~server_running'
    /\ spc' = spc

\* C5: when stop_server has returned, no server listens and every broadcast
\* loop has been told to stop
C5_Stop ==
    [][StopStep => \A i \in Inst : server'[i] # "listening" /\ ~running'[i]]_vars

\* C15: a start attempt whose bind has failed has no broadcast loop: its
\* update thread was never started, or has ended
C15_BindFailure ==
    \A i \in Inst : spc[i] \in {"failed", "dead"} => bpc[i] \in {"none", "done"}

\* the manager holds the server for stopped, as stop_server leaves it, while
\* an instance serves
Stopped == mpc = "idle" /\ ~server_running /\ \E i \in Inst : spc[i] = "serving"

\* every handler that was started has ended and the registries are empty
AllClosed ==
    /\ \A c \in Conns : hpc[c] \in {"Connecting", "Closed"}
    /\ \A i \in Inst : Size(clients[i]) = 0

\* C27: after the server is stopped every handler ends and the registry
\* becomes empty
C27_ShutdownCloses == Stopped ~> AllClosed

\* C36: when the server thread the manager started has ended with an error
\* and no call of start_server is in progress, server_running is false
C36_FlagCleared ==
    (mpc = "idle" /\ websocket_thread # 0 /\ spc[websocket_thread] = "dead")
    => ~server_running

----------------------------------------------------------------------------
(* Properties of the manager's class (SpecClass) *)

\* the constructions made so far
Constructions == {k \in DOMAIN ops : ops[k].op = "WebSocketManager"}

\* C37: every construction returns the object the first one built, and a
\* construction after the first leaves server_running and the thread
\* reference as they were
C37_OneInstance ==
    [][(Len(ops') = Len(ops) + 1 /\ ThisCall.op = "WebSocketManager") =>
          /\ \A k \in Constructions : ops[k].symbol.id = ThisCall.symbol.id
          /\ cls_instance' = ThisCall.symbol.id
          /\ Constructions # {} =>
                 /\ server_running' = server_running
                 /\ websocket_thread' = websocket_thread
                 /\ ThisCall.symbol.server_running = server_running]_vars

\* the manager has been built, the server started, and a second construction
\* has returned the same object with server_running still true
C37_Witness ==
    /\ Len(ops) = 2
    /\ ops[1].op = "WebSocketManager" /\ ops[2].op = "WebSocketManager"
    /\ ops[2].symbol = Built(ops[1].symbol.id, TRUE)
    /\ server_running
    /\ websocket_thread = 1
    /\ spc[1] = "serving"

====
